---------------------------- MODULE Spec2Model ----------------------------
(***************************************************************************)
(* A model of data_generator/generate_data.py: the streaming generator of  *)
(* event records with injected data-quality defects.                       *)
(*                                                                         *)
(* Text is modelled as text: a Python str is a TLA+ string, so that        *)
(* serialisation, byte counting and the corruption transforms are computed *)
(* character by character rather than assumed.  A float is a decimal      *)
(* fraction v / 10^e; an instant is seconds since 2026-01-01T00:00:00Z     *)
(* plus microseconds.                                                      *)
(***************************************************************************)
EXTENDS Integers, Sequences, FiniteSets, TLC

(***************************************************************************)
(* Bounds of the model.                                                    *)
(***************************************************************************)
\* The duplicate pool keeps "the last 1000" (generate_data.py:221); the model
\* scales that capacity down so that eviction happens within a few records.
PoolCapacity == 2
\* Loop iterations explored per file (the loop itself is bounded by bytes).
MaxRecords == 4
\* Successful defect draws (missing, outlier, invalid, corrupt) explored per run.
MaxDefects == 1
\* the calls of the defect policies made on one record
MaxCalls == 2

(***************************************************************************)
(* State.                                                                  *)
(*   FILE_SIZE_GB .. OUTLIER_RATE  the module-level configuration          *)
(*   pc, file_index                where main is, and the i of its loop    *)
(*   target_size_bytes .. duplicate_pool, record, event_id, line           *)
(*                                 the locals of generate_large_file       *)
(*   disk                          the size in bytes of each output file   *)
(*   source, originals             history: where the record of the last   *)
(*                                 iteration came from, and the pool       *)
(*                                 entries inserted so far for this file   *)
(*   defects_drawn                 successful defect draws so far          *)
(*   call                          the last policy call (SpecPolicy)       *)
(*   runs                          the lines of two runs (SpecRuns)        *)
(***************************************************************************)
VARIABLES FILE_SIZE_GB, NUM_LARGE_FILES, CORRUPTION_RATE, MISSING_DATA_RATE,
          DUPLICATE_RATE, OUTLIER_RATE,
          pc, file_index,
          target_size_bytes, current_size, records_written, duplicates_added,
          corrupted_added, duplicate_pool, record, event_id, line,
          disk, source, originals, defects_drawn, call, runs

config == << FILE_SIZE_GB, NUM_LARGE_FILES, CORRUPTION_RATE, MISSING_DATA_RATE,
             DUPLICATE_RATE, OUTLIER_RATE >>

locals == << target_size_bytes, current_size, records_written, duplicates_added,
             corrupted_added, duplicate_pool, record, event_id, line >>

vars == << config, pc, file_index, locals, disk, source, originals, defects_drawn,
           call, runs >>

(***************************************************************************)
(* Python values.  None and the typed values are tagged so that a field    *)
(* that may hold either can be compared.                                   *)
(***************************************************************************)
None == [t |-> "null"]
PyInt(n) == [t |-> "int", v |-> n]
\* the float v / 10^e
PyFloat(v, e) == [t |-> "float", v |-> v, e |-> e]
PyStr(s) == [t |-> "str", v |-> s]
PyDict(d) == [t |-> "dict", v |-> d]
EmptyDict == PyDict(<<>>)

\* dict.update({k: x}) and d[k] = x on a dict value: an existing key keeps its
\* position, a new key is added.
DictSet(d, k, x) ==
    PyDict([key \in (DOMAIN d.v) \cup {k} |-> IF key = k THEN x ELSE d.v[key]])

\* The order in which the keys of the record and of its nested groups are
\* inserted, which is the order json.dumps writes them in.
KeyOrder ==
    << "event_id", "device_id", "device_type", "event_time", "event_duration",
       "location", "latitude", "longitude", "city", "country",
       "metadata", "firmware_version", "battery_level", "signal_strength" >>

(***************************************************************************)
(* Text: digits, numbers, UTF-8.                                           *)
(***************************************************************************)
Char(s, i) == SubSeq(s, i, i)

Digit(d) == Char("0123456789", d + 1)

RECURSIVE NatStr(_)
NatStr(n) == IF n < 10 THEN Digit(n) ELSE NatStr(n \div 10) \o Digit(n % 10)

\* str(int) / json's encoding of an int
IntStr(n) == IF n < 0 THEN "-" \o NatStr(-n) ELSE NatStr(n)

RECURSIVE Pad(_, _)
\* f"{n:0{w}d}"
Pad(n, w) == IF w <= 1 THEN NatStr(n) ELSE
             IF Len(NatStr(n)) >= w THEN NatStr(n) ELSE "0" \o Pad(n, w - 1)

RECURSIVE StripZeros(_)
StripZeros(s) == IF Len(s) > 1 /\ Char(s, Len(s)) = "0"
                 THEN StripZeros(SubSeq(s, 1, Len(s) - 1)) ELSE s

RECURSIVE Pow10(_)
Pow10(e) == IF e = 0 THEN 1 ELSE 10 * Pow10(e - 1)

\* float.__repr__ of v / 10^e (the shortest decimal that round-trips), for
\* magnitudes printed in positional notation: "5.0", "0.1", "-10.0", "123.456789".
FloatRepr(v, e) ==
    LET a == IF v < 0 THEN -v ELSE v
    IN  (IF v < 0 THEN "-" ELSE "") \o NatStr(a \div Pow10(e)) \o "."
            \o StripZeros(Pad(a % Pow10(e), e))

\* The strings of the model are ASCII.  The three characters outside ASCII
\* that occur in its data are written by stand-ins that occur nowhere else:
\* U+00E9 (e acute), U+00FF and U+00FE.
U00E9 == "@"

U00FF == "^"

U00FE == "~"

\* All three are in U+0080..U+07FF: two bytes each in UTF-8.
TwoByteChars == {U00E9, U00FF, U00FE}

\* len(s.encode('utf-8')): one byte for each character and one more for each
\* of the two-byte ones
Utf8Len(s) == Len(s) + Cardinality({ i \in 1..Len(s) : Char(s, i) \in TwoByteChars })

(***************************************************************************)
(* json.dumps                                                              *)
(***************************************************************************)
\* json's \uXXXX escape of the characters outside ASCII (ensure_ascii=True)
UEscape(c) == CASE c = U00E9 -> "\\u00e9"
                [] c = U00FF -> "\\u00ff"
                [] c = U00FE -> "\\u00fe"
                [] OTHER -> c

EscapeChar(c, ensure_ascii) ==
    CASE c = "\"" -> "\\\""
      [] c = "\\" -> "\\\\"
      [] c \in TwoByteChars /\ ensure_ascii -> UEscape(c)
      [] OTHER -> c

RECURSIVE EscapeStr(_, _)
\* every character of s escaped, the string taken by halves
EscapeStr(s, ensure_ascii) ==
    IF s = "" THEN ""
    ELSE IF Len(s) = 1 THEN EscapeChar(s, ensure_ascii)
    ELSE EscapeStr(SubSeq(s, 1, Len(s) \div 2), ensure_ascii)
            \o EscapeStr(SubSeq(s, Len(s) \div 2 + 1, Len(s)), ensure_ascii)

JsonString(s, ensure_ascii) == "\"" \o EscapeStr(s, ensure_ascii) \o "\""

\* The keys as json writes them.  They are ASCII without quotes or
\* backslashes, so both settings of ensure_ascii write the same text.
KeyJson ==
    << JsonString(KeyOrder[1], TRUE), JsonString(KeyOrder[2], TRUE),
       JsonString(KeyOrder[3], TRUE), JsonString(KeyOrder[4], TRUE),
       JsonString(KeyOrder[5], TRUE), JsonString(KeyOrder[6], TRUE),
       JsonString(KeyOrder[7], TRUE), JsonString(KeyOrder[8], TRUE),
       JsonString(KeyOrder[9], TRUE), JsonString(KeyOrder[10], TRUE),
       JsonString(KeyOrder[11], TRUE), JsonString(KeyOrder[12], TRUE),
       JsonString(KeyOrder[13], TRUE), JsonString(KeyOrder[14], TRUE) >>

RECURSIVE JsonDumps(_, _)
RECURSIVE DumpItems(_, _, _, _)
\* The items of dict d whose keys are KeyOrder[i..], joined by ", ".
DumpItems(d, i, first, ensure_ascii) ==
    IF i > Len(KeyOrder) THEN ""
    ELSE IF KeyOrder[i] \notin DOMAIN d
         THEN DumpItems(d, i + 1, first, ensure_ascii)
         ELSE (IF first THEN "" ELSE ", ")
                \o KeyJson[i] \o ": "
                \o JsonDumps(d[KeyOrder[i]], ensure_ascii)
                \o DumpItems(d, i + 1, FALSE, ensure_ascii)

\* json.dumps(value, ensure_ascii=...), default separators
JsonDumps(value, ensure_ascii) ==
    CASE value.t = "null" -> "null"
      [] value.t = "int" -> IntStr(value.v)
      [] value.t = "float" -> FloatRepr(value.v, value.e)
      [] value.t = "str" -> JsonString(value.v, ensure_ascii)
      [] value.t = "dict" -> "{" \o DumpItems(value.v, 1, TRUE, ensure_ascii) \o "}"

(***************************************************************************)
(* datetime: isoformat, fromisoformat, timedelta.  The model's instants    *)
(* lie in 2026 (not a leap year), in UTC.                                  *)
(***************************************************************************)
DaysInMonth == << 31, 28, 31, 30, 31, 30, 31, 31, 30, 31, 30, 31 >>

RECURSIVE MonthOf(_, _)
\* the month and day of month of day-of-year doy (0 = 1 January)
MonthOf(doy, m) ==
    IF doy < DaysInMonth[m] THEN [month |-> m, day |-> doy + 1]
    ELSE MonthOf(doy - DaysInMonth[m], m + 1)

RECURSIVE DaysBefore(_)
DaysBefore(m) == IF m = 1 THEN 0 ELSE DaysBefore(m - 1) + DaysInMonth[m - 1]

Instant(s, us) == [s |-> s, us |-> us]

\* t - timedelta(days=d, hours=h, minutes=m)
MinusDelta(t, d, h, m) == Instant(t.s - (d * 86400 + h * 3600 + m * 60), t.us)

\* A faulty shift, backwards in time.
MinusSeconds(t, n) == Instant(t.s - n, t.us)

\* t + timedelta(seconds=n)
PlusSeconds(t, n) == Instant(t.s + n, t.us)

\* datetime.isoformat() of an aware UTC datetime: the microseconds are
\* written only when they are not zero.
IsoFormat(t) ==
    LET md  == MonthOf(t.s \div 86400, 1)
        sod == t.s % 86400
    IN  "2026-" \o Pad(md.month, 2) \o "-" \o Pad(md.day, 2) \o "T"
            \o Pad(sod \div 3600, 2) \o ":" \o Pad((sod % 3600) \div 60, 2)
            \o ":" \o Pad(sod % 60, 2)
            \o (IF t.us = 0 THEN "" ELSE "." \o Pad(t.us, 6))
            \o "+00:00"

Digits == {"0", "1", "2", "3", "4", "5", "6", "7", "8", "9"}

DigitVal(c) == CHOOSE d \in 0..9 : Digit(d) = c

AllDigits(s) == \A i \in 1..Len(s) : Char(s, i) \in Digits

RECURSIVE StrNat(_)
StrNat(s) == IF s = "" THEN 0
             ELSE StrNat(SubSeq(s, 1, Len(s) - 1)) * 10 + DigitVal(Char(s, Len(s)))

\* datetime.fromisoformat(s) for the two shapes isoformat() writes; anything
\* else is a ValueError (ok = FALSE).
FromIsoFormat(s) ==
    LET n      == Len(s)
        frac   == n = 32
        shape  == /\ n \in {25, 32}
                  /\ SubSeq(s, 1, 5) = "2026-"
                  /\ Char(s, 8) = "-" /\ Char(s, 11) = "T"
                  /\ Char(s, 14) = ":" /\ Char(s, 17) = ":"
                  /\ (frac => Char(s, 20) = ".")
                  /\ SubSeq(s, n - 5, n) = "+00:00"
                  /\ AllDigits(SubSeq(s, 6, 7) \o SubSeq(s, 9, 10) \o SubSeq(s, 12, 13)
                                \o SubSeq(s, 15, 16) \o SubSeq(s, 18, 19))
                  /\ (frac => AllDigits(SubSeq(s, 21, 26)))
        month  == StrNat(SubSeq(s, 6, 7))
        day    == StrNat(SubSeq(s, 9, 10))
        hh     == StrNat(SubSeq(s, 12, 13))
        mm     == StrNat(SubSeq(s, 15, 16))
        ss     == StrNat(SubSeq(s, 18, 19))
        range  == /\ month \in 1..12 /\ day \in 1..DaysInMonth[month]
                  /\ hh < 24 /\ mm < 60 /\ ss < 60
    IN  IF shape /\ range
        THEN [ok |-> TRUE,
              t  |-> Instant((DaysBefore(month) + day - 1) * 86400
                                + hh * 3600 + mm * 60 + ss,
                             IF frac THEN StrNat(SubSeq(s, 21, 26)) ELSE 0)]
        ELSE [ok |-> FALSE, t |-> Instant(0, 0)]

(***************************************************************************)
(* str methods used by the generator                                       *)
(***************************************************************************)
StartsAt(s, i, sub) == i + Len(sub) - 1 <= Len(s) /\ SubSeq(s, i, i + Len(sub) - 1) = sub

Occurrences(s, sub) == { i \in 1..Len(s) : StartsAt(s, i, sub) }

\* s.find(sub) + 1: the first index at which sub occurs in s, 0 when there is none
Find(s, sub) ==
    LET hits == Occurrences(s, sub)
    IN  IF hits = {} THEN 0 ELSE CHOOSE i \in hits : \A j \in hits : i <= j

\* s.rfind(sub) + 1: the last index at which sub occurs in s, 0 when there is none
RFind(s, sub) ==
    LET hits == Occurrences(s, sub)
    IN  IF hits = {} THEN 0 ELSE CHOOSE i \in hits : \A j \in hits : i >= j

\* s.replace(old, new, 1)
ReplaceFirst(s, old, new) ==
    LET i == Find(s, old)
    IN  IF i = 0 THEN s
        ELSE SubSeq(s, 1, i - 1) \o new \o SubSeq(s, i + Len(old), Len(s))

RECURSIVE ReplaceAll(_, _, _)
\* s.replace(old, new)
ReplaceAll(s, old, new) ==
    LET i == Find(s, old)
    IN  IF i = 0 THEN s
        ELSE SubSeq(s, 1, i - 1) \o new
                \o ReplaceAll(SubSeq(s, i + Len(old), Len(s)), old, new)

\* s.rsplit(sep, 1)[0]
RSplitHead(s, sep) ==
    LET i == RFind(s, sep)
    IN  IF i = 0 THEN s ELSE SubSeq(s, 1, i - 1)

EndsWith(s, suffix) == Len(s) >= Len(suffix) /\ StartsAt(s, Len(s) - Len(suffix) + 1, suffix)

(***************************************************************************)
(* The random module.  A draw of random.random() is a number of            *)
(* thousandths u in 0..999; the other draws are computed from one such u   *)
(* as the library computes them from a uniform variate.                    *)
(***************************************************************************)
\* random.choice(seq)
Choice(seq, u) == seq[1 + (u * Len(seq)) \div 1000]

\* random.randint(a, b)
RandInt(a, b, u) == a + (u * (b - a + 1)) \div 1000

\* random.uniform(a, b) = a + (b - a) * random(), a and b in the same unit:
\* a + floor((b - a) * u / 1000), computed without leaving 32 bits
Uniform(a, b, u) ==
    a + ((b - a) \div 1000) * u + (((b - a) % 1000) * u) \div 1000

\* round(x, ndigits) of the float v / 10^e, e >= ndigits: the nearest multiple
\* of 10^-ndigits, ties to even, as a float v' / 10^ndigits
Round(v, e, ndigits) ==
    LET unit == Pow10(e - ndigits)
        q == v \div unit
        r == v % unit
    IN  PyFloat(IF 2 * r > unit \/ (2 * r = unit /\ q % 2 = 1) THEN q + 1 ELSE q,
                ndigits)

(***************************************************************************)
(* Module-level constants of the generator.                                *)
(***************************************************************************)
DEVICE_TYPES == << "sensor_A", "sensor_B", "camera", "thermo" >>

DeviceName(i) == "dev_" \o NatStr(i)

POPULAR_DEVICES == [i \in 1..5 |-> DeviceName(i)]

RARE_DEVICES == [i \in 1..45 |-> DeviceName(i + 5)]

(***************************************************************************)
(* Record Synthesizer.  d holds the draws of the seeded module-level       *)
(* random source, one per call in call order; now is the wall clock read   *)
(* by datetime.now, fk the values returned by the Faker instance (its      *)
(* coordinates in units of 10^-7 degree).  A uniform variate is drawn at   *)
(* a resolution of 10^-4 before it is rounded to three places.             *)
(***************************************************************************)
generate_valid_record(d, now, fk) ==
    LET device_id   == IF d.skew < 800 THEN Choice(POPULAR_DEVICES, d.device)
                                       ELSE Choice(RARE_DEVICES, d.device)
        device_type == Choice(DEVICE_TYPES, d.device_type)
        days_ago       == RandInt(0, 30, d.days_ago)
        hours_offset   == RandInt(0, 23, d.hours_offset)
        minutes_offset == RandInt(0, 59, d.minutes_offset)
        event_time  == MinusDelta(now, days_ago, hours_offset, minutes_offset)
        new_id      == RandInt(100000, 999999, d.event_id)
        new_record ==
          PyDict([event_id       |-> PyInt(new_id),
                  device_id      |-> PyStr(device_id),
                  device_type    |-> PyStr(device_type),
                  event_time     |-> PyStr(IsoFormat(event_time)),
                  event_duration |-> Round(Uniform(1000, 50000, d.event_duration), 4, 3),
                  location |-> PyDict([latitude  |-> Round(fk.latitude, 7, 6),
                                       longitude |-> Round(fk.longitude, 7, 6),
                                       city      |-> PyStr(fk.city),
                                       country   |-> PyStr(fk.country)]),
                  metadata |-> PyDict([firmware_version |->
                                           PyStr(NatStr(RandInt(1, 5, d.fw_major)) \o "."
                                                   \o NatStr(RandInt(0, 9, d.fw_minor)) \o "."
                                                   \o NatStr(RandInt(0, 99, d.fw_patch))),
                                       battery_level    |-> PyInt(RandInt(0, 100, d.battery_level)),
                                       signal_strength  |-> PyInt(RandInt(-120, 0, d.signal_strength))])])
    IN  << new_record, new_id >>

(***************************************************************************)
(* Defect Injector.  Each policy mutates the record in place; the model    *)
(* returns the record after the call and whether the call raised.          *)
(***************************************************************************)
Returned(r) == [record |-> r, raised |-> FALSE]

Raised(r) == [record |-> r, raised |-> TRUE]

\* r.update({key: None}) on the record itself
NullField(r, key) == Returned(DictSet(r, key, None))

\* r[group].update({key: None}): None has no update(), an AttributeError
NullLeaf(r, group, key) ==
    IF r.v[group] = None THEN Raised(r)
    ELSE Returned(DictSet(r, group, DictSet(r.v[group], key, None)))

\* A faulty catalogue whose actions null the event_duration as well.
MissingOptionTwoTargets(r, i) ==
    NullField(IF i \in {3, 4, 5, 6}
              THEN DictSet(r, IF i \in {3, 4} THEN "location" ELSE "metadata",
                           DictSet(r.v[IF i \in {3, 4} THEN "location" ELSE "metadata"],
                                   CASE i = 3 -> "city" [] i = 4 -> "latitude"
                                     [] i = 5 -> "battery_level" [] i = 6 -> "signal_strength",
                                   None))
              ELSE DictSet(r, CASE i = 1 -> "event_duration" [] i = 2 -> "device_type"
                                [] i = 7 -> "location" [] i = 8 -> "metadata", None),
              "event_duration")

\* The options list of introduce_missing_data, by index.
MissingOption(r, i) ==
    CASE i = 1 -> NullField(r, "event_duration")
      [] i = 2 -> NullField(r, "device_type")
      [] i = 3 -> NullLeaf(r, "location", "city")
      [] i = 4 -> NullLeaf(r, "location", "latitude")
      [] i = 5 -> NullLeaf(r, "metadata", "battery_level")
      [] i = 6 -> NullLeaf(r, "metadata", "signal_strength")
      [] i = 7 -> NullField(r, "location")
      [] i = 8 -> NullField(r, "metadata")

\* A faulty helper without its own draw against the rate.
IntroduceMissingDataUngated(r, d) ==
    MissingOption(r, Choice(<<1, 2, 3, 4, 5, 6, 7, 8>>, d.option))

\* d = [gate, option]: the random.random() draw and the draw of random.choice
introduce_missing_data(r, d) ==
    IF d.gate < MISSING_DATA_RATE
    THEN MissingOption(r, Choice(<<1, 2, 3, 4, 5, 6, 7, 8>>, d.option))
    ELSE Returned(r)

INVALID_TYPES ==
    << "battery_over_100", "battery_negative", "coordinates_out_of_range",
       "duration_negative", "duration_extreme", "signal_out_of_range" >>

\* if record.get(group) is None: record[group] = {}
EnsureGroup(r, group) == IF r.v[group] = None THEN DictSet(r, group, EmptyDict) ELSE r

\* A faulty assignment that always writes the battery_level of the group.
SetLeafWrongKey(r, group, key, x) ==
    LET g == EnsureGroup(r, group)
    IN  DictSet(g, group, DictSet(g.v[group], "battery_level", x))

\* A faulty assignment that gives up when the group is null.
SetLeafSkipsNull(r, group, key, x) ==
    IF r.v[group] = None THEN r
    ELSE DictSet(r, group, DictSet(r.v[group], key, x))

\* record[group][key] = x after the defensive initialisation of the group
SetLeaf(r, group, key, x) ==
    LET g == EnsureGroup(r, group)
    IN  DictSet(g, group, DictSet(g.v[group], key, x))

\* d = [gate, type, a, b]: the random.random() draw, the draw of
\* random.choice, and the one or two value draws of the selected mutation.
introduce_invalid_values(r, d) ==
    IF d.gate < OUTLIER_RATE
    THEN LET corruption_type == Choice(INVALID_TYPES, d.type)
         IN  Returned(
               CASE corruption_type = "battery_over_100" ->
                      SetLeaf(r, "metadata", "battery_level", PyInt(RandInt(101, 200, d.a)))
                 [] corruption_type = "battery_negative" ->
                      SetLeaf(r, "metadata", "battery_level", PyInt(RandInt(-50, -1, d.a)))
                 [] corruption_type = "coordinates_out_of_range" ->
                      SetLeaf(SetLeaf(r, "location", "latitude",
                                      PyFloat(Uniform(91000000, 180000000, d.a), 6)),
                              "location", "longitude",
                              PyFloat(Uniform(181000000, 360000000, d.b), 6))
                 [] corruption_type = "duration_negative" ->
                      DictSet(r, "event_duration",
                              Round(Uniform(-100000, -1000, d.a), 4, 3))
                 [] corruption_type = "duration_extreme" ->
                      DictSet(r, "event_duration",
                              Round(Uniform(1000000, 100000000, d.a), 4, 3))
                 [] corruption_type = "signal_out_of_range" ->
                      SetLeaf(r, "metadata", "signal_strength", PyInt(RandInt(1, 100, d.a))))
    ELSE Returned(r)

\* d = [gate, a]
introduce_outlier(r, d) ==
    IF d.gate < OUTLIER_RATE
    THEN Returned(DictSet(r, "event_duration",
                          Round(Uniform(500000, 5000000, d.a), 4, 3)))
    ELSE Returned(r)

JSON_CORRUPTIONS ==
    << "missing_quote", "missing_bracket", "extra_comma", "invalid_escape",
       "truncated", "unicode_error" >>

\* u: the draw of random.choice
make_corrupted_json(r, u) ==
    LET corruption_type == Choice(JSON_CORRUPTIONS, u)
        json_str == JsonDumps(r, TRUE)
    IN  CASE corruption_type = "missing_quote" ->
               ReplaceFirst(json_str, "\"device_id\":", "device_id\":")
          [] corruption_type = "missing_bracket" -> RSplitHead(json_str, "}")
          [] corruption_type = "extra_comma" ->
               ReplaceFirst(json_str, "\"event_id\"", ",\"event_id\"")
          [] corruption_type = "invalid_escape" ->
               ReplaceFirst(json_str, "\\\"", "\\x\"")
          [] corruption_type = "truncated" -> SubSeq(json_str, 1, Len(json_str) \div 2)
          [] corruption_type = "unicode_error" -> json_str \o U00FF \o U00FE

\* d = [gate, seconds].  copy.deepcopy is the value itself: the model's values
\* are not shared.  A field that is not a str has no endswith(): an
\* AttributeError, which the except clause does not catch.
\* A faulty copy: the duplicate is given an identity of its own.
CopyWithOtherId(original_record, original_event_id) ==
    DictSet(original_record, "event_id", PyInt(original_event_id + 1))

\* duplicate = copy.deepcopy(original_record); duplicate["event_id"] = original_event_id
CopyWithId(original_record, original_event_id) ==
    DictSet(original_record, "event_id", PyInt(original_event_id))

generate_duplicate(original_record, original_event_id, d) ==
    LET duplicate == CopyWithId(original_record, original_event_id)
    IN  IF d.gate < 500
        THEN LET field == duplicate.v["event_time"]
             IN  IF field.t # "str" THEN Raised(duplicate)
                 ELSE LET event_time_str ==
                            IF EndsWith(field.v, "Z")
                            THEN ReplaceAll(field.v, "Z", "+00:00") ELSE field.v
                          parsed == FromIsoFormat(event_time_str)
                      IN  IF parsed.ok
                          THEN Returned(DictSet(duplicate, "event_time",
                                   PyStr(IsoFormat(PlusSeconds(parsed.t,
                                                     RandInt(1, 60, d.seconds))))))
                          ELSE Returned(duplicate)
        ELSE Returned(duplicate)

(***************************************************************************)
(* Streaming Writer: the steps of one iteration of the loop of             *)
(* generate_large_file, as functions of the iteration's draws dr.          *)
(***************************************************************************)
\* A faulty pool that never evicts.
PoolInsertNoEviction(pool, entry) == Append(pool, entry)

\* A faulty pool that evicts its newest entry: pop() in place of pop(0).
PoolInsertEvictNewest(pool, entry) ==
    LET appended == Append(pool, entry)
    IN  IF Len(appended) > PoolCapacity
        THEN SubSeq(appended, 1, Len(appended) - 1) ELSE appended

\* duplicate_pool.append(...) and the eviction that keeps the pool's size
PoolInsert(pool, entry) ==
    LET appended == Append(pool, entry)
    IN  IF Len(appended) > PoolCapacity THEN Tail(appended) ELSE appended

\* Lines 208-222: the record of this iteration, from the pool or new.  A pool
\* entry is the tuple (snapshot, event_id); the model adds to it where the
\* snapshot was emitted as an original (file, ordinal), which the code does
\* not read.
SelectRecord(pool, dr, file, ordinal) ==
    IF dr.rand < DUPLICATE_RATE /\ pool # << >>
    THEN LET entry == Choice(pool, dr.pick)
         IN  [out      |-> generate_duplicate(entry.record, entry.event_id, dr.dup),
              event_id |-> entry.event_id,
              pool     |-> pool,
              dup      |-> TRUE,
              entry    |-> entry,
              index    |-> 1 + (dr.pick * Len(pool)) \div 1000]
    ELSE LET g     == generate_valid_record(dr.synth.d, dr.synth.now, dr.synth.fk)
             entry == [record |-> g[1], event_id |-> g[2],
                       origin |-> [file |-> file, n |-> ordinal]]
         IN  [out      |-> Returned(g[1]),
              event_id |-> g[2],
              pool     |-> PoolInsert(pool, entry),
              dup      |-> FALSE,
              entry    |-> entry,
              index    |-> Len(PoolInsert(pool, entry))]

\* A faulty snapshot: the pool is given the record itself, and sees what is
\* done to it afterwards.
PoolSnapshotShared(synthesized, emitted) == emitted

\* copy.deepcopy(record) at line 219: of the record as synthesized and the
\* record as the rest of the iteration leaves it, the pool holds the former.
PoolSnapshot(synthesized, emitted) == synthesized

\* A faulty duplicate: the pool's own record is handed out and mutated.
SourceAfterCopyShared(original_record, emitted) == emitted

\* copy.deepcopy(original_record) at line 174: the pool's record after the
\* duplicate made from it has been mutated and emitted.
SourceAfterCopy(original_record, emitted) == original_record

\* The pool at the end of an iteration whose selection was sel and whose
\* record, after generate_duplicate and the defect policies, is emitted.
PoolAfterIteration(sel, emitted) ==
    [sel.pool EXCEPT ![sel.index].record =
        IF sel.dup THEN SourceAfterCopy(@, emitted) ELSE PoolSnapshot(@, emitted)]

\* A faulty order of the policies: outlier, invalid values, then missing data.
InjectDefectsMissingLast(r, dr) ==
    LET o == IF dr.outlier_gate < OUTLIER_RATE
             THEN introduce_outlier(r, dr.outlier) ELSE Returned(r)
        i == IF dr.invalid_gate < OUTLIER_RATE
             THEN introduce_invalid_values(o.record, dr.invalid) ELSE o
    IN  IF dr.missing_gate < MISSING_DATA_RATE
        THEN introduce_missing_data(i.record, dr.missing) ELSE i

\* Lines 224-232: the three policies in their order, each behind the loop's
\* own draw; an exception ends the iteration.
InjectDefects(r, dr) ==
    LET m == IF dr.missing_gate < MISSING_DATA_RATE
             THEN introduce_missing_data(r, dr.missing) ELSE Returned(r)
        o == IF m.raised THEN m
             ELSE IF dr.outlier_gate < OUTLIER_RATE
                  THEN introduce_outlier(m.record, dr.outlier) ELSE m
    IN  IF o.raised THEN o
        ELSE IF dr.invalid_gate < OUTLIER_RATE
             THEN introduce_invalid_values(o.record, dr.invalid) ELSE o

\* f.write(text) on the file opened with encoding='utf-8': the bytes appended
FileWrite(text) == Utf8Len(text)

\* A faulty writer that counts the characters of a line, not its bytes.
WriteRecordCountingChars(r, dr) ==
    LET text == IF dr.corrupt_gate < CORRUPTION_RATE
                THEN make_corrupted_json(r, dr.corrupt_choice) \o "\n"
                ELSE JsonDumps(r, FALSE) \o "\n"
    IN  [line |-> text, written |-> FileWrite(text), counted |-> Len(text),
         corrupted |-> IF dr.corrupt_gate < CORRUPTION_RATE THEN 1 ELSE 0]

\* A faulty writer that leaves corrupted lines out of current_size.
WriteRecordCorruptUncounted(r, dr) ==
    LET text == IF dr.corrupt_gate < CORRUPTION_RATE
                THEN make_corrupted_json(r, dr.corrupt_choice) \o "\n"
                ELSE JsonDumps(r, FALSE) \o "\n"
    IN  [line |-> text, written |-> FileWrite(text),
         counted |-> IF dr.corrupt_gate < CORRUPTION_RATE THEN 0 ELSE Utf8Len(text),
         corrupted |-> IF dr.corrupt_gate < CORRUPTION_RATE THEN 1 ELSE 0]

\* A faulty writer that does not count the corrupted lines.
WriteRecordCorruptUnreported(r, dr) ==
    LET text == IF dr.corrupt_gate < CORRUPTION_RATE
                THEN make_corrupted_json(r, dr.corrupt_choice) \o "\n"
                ELSE JsonDumps(r, FALSE) \o "\n"
    IN  [line |-> text, written |-> FileWrite(text), counted |-> Utf8Len(text),
         corrupted |-> 0]

\* A faulty writer whose corruption gate is random.random() <= CORRUPTION_RATE.
WriteRecordGateInclusive(r, dr) ==
    LET text == IF dr.corrupt_gate <= CORRUPTION_RATE
                THEN make_corrupted_json(r, dr.corrupt_choice) \o "\n"
                ELSE JsonDumps(r, FALSE) \o "\n"
    IN  [line |-> text, written |-> FileWrite(text), counted |-> Utf8Len(text),
         corrupted |-> IF dr.corrupt_gate <= CORRUPTION_RATE THEN 1 ELSE 0]

\* Lines 234-245: the line written, the bytes it adds to the file and the
\* bytes added to current_size.
WriteRecord(r, dr) ==
    IF dr.corrupt_gate < CORRUPTION_RATE
    THEN LET corrupted_line == make_corrupted_json(r, dr.corrupt_choice) \o "\n"
         IN  [line |-> corrupted_line, written |-> FileWrite(corrupted_line),
              counted |-> Utf8Len(corrupted_line), corrupted |-> 1]
    ELSE LET json_line == JsonDumps(r, FALSE) \o "\n"
         IN  [line |-> json_line, written |-> FileWrite(json_line),
              counted |-> Utf8Len(json_line), corrupted |-> 0]

\* int(x) of the quotient num / den: truncation towards zero
IntTrunc(num, den) == IF num >= 0 THEN num \div den ELSE -((-num) \div den)

(***************************************************************************)
(* The inputs explored: configurations, draws, clock readings, Faker       *)
(* values.                                                                 *)
(***************************************************************************)
\* FILE_SIZE_GB is held in units of 2^-31 GB, so that target_size_gb * 2^30 is
\* FILE_SIZE_GB / 2 bytes and int() has a fraction to truncate.
\* The defaults of lines 28-31, and an environment that sets every rate but
\* the duplicate rate to 0.
DefaultRates == [corruption |-> 1, missing |-> 50, duplicate |-> 20, outlier |-> 10]

DuplicatesOnly == [corruption |-> 0, missing |-> 0, duplicate |-> 20, outlier |-> 0]

\* An environment that leaves the missing-data and duplicate rates at their
\* defaults and sets the other two to 0, and one that sets all four to 0.
MissingAndDuplicates == [corruption |-> 0, missing |-> 50, duplicate |-> 20, outlier |-> 0]

ZeroRates == [corruption |-> 0, missing |-> 0, duplicate |-> 0, outlier |-> 0]

\* The environments explored: a file of four records without defects, a file
\* of two or three records with the default rates, two files of one or two
\* records each, and files whose target is 0 and negative.
Configs ==
    { [size |-> 2001, files |-> 1, rates |-> DuplicatesOnly],
      [size |-> 801, files |-> 1, rates |-> DefaultRates],
      [size |-> 801, files |-> 1, rates |-> MissingAndDuplicates],
      [size |-> 801, files |-> 1, rates |-> ZeroRates],
      [size |-> 643, files |-> 2, rates |-> DefaultRates],
      [size |-> 1, files |-> 1, rates |-> DefaultRates],
      [size |-> -3, files |-> 2, rates |-> DefaultRates] }

\* One draw below every rate of the model and one above.
GateDraws == {0, 999}

ValueDraws == {0, 999}

\* One draw for each outcome of a uniform choice among n.
ChoiceDraws(n) == { ((k - 1) * 1000 + n - 1) \div n : k \in 1..n }

LowDraws ==
    [skew |-> 0, device |-> 0, device_type |-> 0, days_ago |-> 0, hours_offset |-> 0,
     minutes_offset |-> 0, event_id |-> 0, event_duration |-> 0, fw_major |-> 0,
     fw_minor |-> 0, fw_patch |-> 0, battery_level |-> 0, signal_strength |-> 0]

HighDraws ==
    [skew |-> 999, device |-> 999, device_type |-> 999, days_ago |-> 999,
     hours_offset |-> 999, minutes_offset |-> 999, event_id |-> 999,
     event_duration |-> 999, fw_major |-> 999, fw_minor |-> 999, fw_patch |-> 999,
     battery_level |-> 999, signal_strength |-> 999]

\* 2026-03-01T00:00:30Z, on the second and 5 microseconds after it
Clock1 == Instant(59 * 86400 + 30, 0)

Clock2 == Instant(59 * 86400 + 30, 5)

Faker1 == [latitude |-> 125000000, longitude |-> -451234565,
           city |-> "Port Lisa", country |-> "Chad"]

Faker2 == [latitude |-> -899999999, longitude |-> 1799999994,
           city |-> "Orl" \o U00E9 \o "ans", country |-> "France"]

\* What one call of generate_valid_record reads: seeded draws, clock, Faker.
SynthInputs ==
    { [d |-> LowDraws, now |-> Clock1, fk |-> Faker1],
      [d |-> HighDraws, now |-> Clock2, fk |-> Faker2] }

NoSynth == [d |-> LowDraws, now |-> Clock1, fk |-> Faker1]

DupDraws == { [gate |-> 999, seconds |-> 0] } \cup { [gate |-> 0, seconds |-> u] : u \in ValueDraws }

NoDup == [gate |-> 999, seconds |-> 0]

MissingDraws == { [gate |-> g, option |-> u] : g \in GateDraws, u \in ChoiceDraws(8) }

NoMissing == [gate |-> 999, option |-> 0]

OutlierDraws == { [gate |-> g, a |-> u] : g \in GateDraws, u \in ValueDraws }

NoOutlier == [gate |-> 999, a |-> 0]

InvalidDraws ==
    { [gate |-> g, type |-> u, a |-> a, b |-> a] :
        g \in GateDraws, u \in ChoiceDraws(6), a \in ValueDraws }

NoInvalid == [gate |-> 999, type |-> 0, a |-> 0, b |-> 0]

(***************************************************************************)
(* main and generate_large_file                                            *)
(***************************************************************************)
NoSource == [kind |-> "none"]

NoCall == [policy |-> "none", n |-> 0]

InitConfig ==
    \E c \in Configs :
        /\ FILE_SIZE_GB = c.size
        /\ NUM_LARGE_FILES = c.files
        /\ CORRUPTION_RATE = c.rates.corruption
        /\ MISSING_DATA_RATE = c.rates.missing
        /\ DUPLICATE_RATE = c.rates.duplicate
        /\ OUTLIER_RATE = c.rates.outlier

InitLocals ==
    /\ target_size_bytes = 0
    /\ current_size = 0
    /\ records_written = 0
    /\ duplicates_added = 0
    /\ corrupted_added = 0
    /\ duplicate_pool = << >>
    /\ record = None
    /\ event_id = 0
    /\ line = ""

\* The module has been imported and main is about to enter its loop over the
\* files; no output file exists yet (size -1).
Init ==
    /\ InitConfig
    /\ InitLocals
    /\ pc = "main"
    /\ file_index = 1
    /\ disk = [i \in 1..NUM_LARGE_FILES |-> -1]
    /\ source = NoSource
    /\ originals = << >>
    /\ defects_drawn = 0
    /\ call = NoCall
    /\ runs = << >>

\* A faulty start that keeps the pool of the previous file, as a module-level
\* pool would.
NewPoolShared(old) == old

\* duplicate_pool = []: the pool a call of generate_large_file starts with,
\* whatever the pool of the previous call held.
NewPool(old) == << >>

\* main calls generate_large_file(file_path, FILE_SIZE_GB, i): lines 193-205,
\* up to the opening of the file, which creates or empties it.
StartFile ==
    /\ pc = "main"
    /\ file_index <= NUM_LARGE_FILES
    /\ target_size_bytes' = IntTrunc(FILE_SIZE_GB, 2)
    /\ current_size' = 0
    /\ records_written' = 0
    /\ duplicates_added' = 0
    /\ corrupted_added' = 0
    /\ duplicate_pool' = NewPool(duplicate_pool)
    /\ disk' = [disk EXCEPT ![file_index] = 0]
    /\ originals' = << >>
    /\ source' = NoSource
    /\ pc' = "loop"
    /\ UNCHANGED << config, file_index, record, event_id, line, defects_drawn, call, runs >>

\* A faulty condition that writes one more line when the target is met exactly.
LoopConditionInclusive == current_size <= target_size_bytes

\* while current_size < target_size_bytes
LoopCondition == current_size < target_size_bytes

\* Which of the random.random() draws of an iteration were below their rate:
\* for each policy the draw of the loop (lines 225-231) and the draw of the
\* helper (lines 86, 103, 138), and the draw of line 235.
DrawsBelowRate(dr) ==
    [missing |-> [loop   |-> dr.missing_gate < MISSING_DATA_RATE,
                  helper |-> dr.missing.gate < MISSING_DATA_RATE],
     outlier |-> [loop   |-> dr.outlier_gate < OUTLIER_RATE,
                  helper |-> dr.outlier.gate < OUTLIER_RATE],
     invalid |-> [loop   |-> dr.invalid_gate < OUTLIER_RATE,
                  helper |-> dr.invalid.gate < OUTLIER_RATE],
     corrupt |-> dr.corrupt_gate < CORRUPTION_RATE]

\* The state after one iteration of the loop with draws dr (lines 208-247).
\* An exception leaves the with block, which closes the file, and main.
LoopBody(dr) ==
    \E sel \in {SelectRecord(duplicate_pool, dr, file_index, Len(originals) + 1)} :
    \E inj \in {IF sel.out.raised THEN sel.out ELSE InjectDefects(sel.out.record, dr)} :
    \E w \in {WriteRecord(inj.record, dr)} :
        /\ duplicate_pool' = PoolAfterIteration(sel, inj.record)
        /\ event_id' = sel.event_id
        /\ record' = inj.record
        /\ duplicates_added' = duplicates_added + (IF sel.dup THEN 1 ELSE 0)
        /\ source' = [kind  |-> IF sel.dup THEN "duplicate" ELSE "new",
                      entry |-> sel.entry,
                      base  |-> sel.out.record,
                      gates |-> DrawsBelowRate(dr)]
        /\ IF inj.raised
           THEN /\ pc' = "aborted"
                /\ UNCHANGED << originals, line, disk, current_size, corrupted_added,
                                records_written >>
           ELSE /\ pc' = "loop"
                /\ originals' = IF sel.dup THEN originals
                                ELSE Append(originals,
                                            [entry |-> sel.entry,
                                             emitted |-> inj.record.v["event_id"],
                                             emitted_record |-> inj.record])
                /\ line' = w.line
                /\ disk' = [disk EXCEPT ![file_index] = @ + w.written]
                /\ corrupted_added' = corrupted_added + w.corrupted
                /\ current_size' = current_size + w.counted
                /\ records_written' = records_written + 1

\* The successful defect draws explored in a run: one more where only the
\* missing-data policy can fire, so that it fires on two records of a file.
DefectBudget ==
    IF OUTLIER_RATE = 0 /\ CORRUPTION_RATE = 0 THEN MaxDefects + 1 ELSE MaxDefects

\* The gate draws explored when n defect draws have succeeded so far: a draw
\* below the rate only while fewer than DefectBudget have.
Gates(rate, n) == { g \in GateDraws : g < rate => n < DefectBudget }

Fired(g, rate) == IF g < rate THEN 1 ELSE 0

LoopIteration ==
    /\ pc = "loop"
    /\ LoopCondition
    /\ records_written < MaxRecords
    /\ \E rand \in GateDraws :
       LET dup == rand < DUPLICATE_RATE /\ duplicate_pool # << >> IN
       \E pick \in (IF dup THEN ChoiceDraws(Len(duplicate_pool)) ELSE {0}) :
       \E dd \in (IF dup THEN DupDraws ELSE {NoDup}) :
       \E sy \in (IF dup THEN {NoSynth} ELSE SynthInputs) :
       \E g1 \in Gates(MISSING_DATA_RATE, defects_drawn) :
       LET n1 == defects_drawn + Fired(g1, MISSING_DATA_RATE) IN
       \E d1 \in (IF g1 < MISSING_DATA_RATE THEN MissingDraws ELSE {NoMissing}) :
       \E g2 \in Gates(OUTLIER_RATE, n1) :
       LET n2 == n1 + Fired(g2, OUTLIER_RATE) IN
       \E d2 \in (IF g2 < OUTLIER_RATE THEN OutlierDraws ELSE {NoOutlier}) :
       \E g3 \in Gates(OUTLIER_RATE, n2) :
       LET n3 == n2 + Fired(g3, OUTLIER_RATE) IN
       \E d3 \in (IF g3 < OUTLIER_RATE THEN InvalidDraws ELSE {NoInvalid}) :
       \E g4 \in Gates(CORRUPTION_RATE, n3) :
       \E c4 \in (IF g4 < CORRUPTION_RATE THEN ChoiceDraws(6) ELSE {0}) :
          /\ LoopBody([rand |-> rand, pick |-> pick, dup |-> dd, synth |-> sy,
                       missing_gate |-> g1, missing |-> d1,
                       outlier_gate |-> g2, outlier |-> d2,
                       invalid_gate |-> g3, invalid |-> d3,
                       corrupt_gate |-> g4, corrupt_choice |-> c4])
          /\ defects_drawn' = n3 + Fired(g4, CORRUPTION_RATE)
    /\ UNCHANGED << config, file_index, target_size_bytes, call, runs >>

\* The loop ends, the with block closes the file and the counts are reported
\* (lines 255-261).
CloseFile ==
    /\ pc = "loop"
    /\ ~LoopCondition
    /\ pc' = "closed"
    /\ UNCHANGED << config, file_index, locals, disk, source, originals,
                    defects_drawn, call, runs >>

\* generate_large_file returns and main's loop takes the next i.
NextFile ==
    /\ pc = "closed"
    /\ file_index' = file_index + 1
    /\ pc' = "main"
    /\ UNCHANGED << config, locals, disk, source, originals, defects_drawn, call, runs >>

\* After the last file main writes the two reference tables (lines 320-331),
\* which are outside this model, and returns.
GenerateReferenceFiles ==
    /\ pc = "main"
    /\ file_index > NUM_LARGE_FILES
    /\ pc' = "done"
    /\ UNCHANGED << config, file_index, locals, disk, source, originals,
                    defects_drawn, call, runs >>

Next ==
    \/ StartFile
    \/ LoopIteration
    \/ CloseFile
    \/ NextFile
    \/ GenerateReferenceFiles

Spec == Init /\ [][Next]_vars

\* LoopIteration can be taken: its guard, and some draw of every kind exists.
LoopIterationEnabled == pc = "loop" /\ LoopCondition /\ records_written < MaxRecords

\* The interpreter runs the single-threaded process until main returns: weak
\* fairness of every action.  For LoopIteration it is written out, with
\* LoopIterationEnabled as its ENABLED and, as only LoopIteration can leave a
\* state of the loop below the target, any step from such a state as the
\* action.
FairSpec ==
    /\ Spec
    /\ WF_vars(StartFile)
    /\ WF_vars(CloseFile)
    /\ WF_vars(NextFile)
    /\ WF_vars(GenerateReferenceFiles)
    /\ ([]<>(~LoopIterationEnabled) \/ []<><<pc = "loop" /\ LoopCondition>>_vars)

(***************************************************************************)
(* Duplicate Pool                                                          *)
(***************************************************************************)
\* C1: after every iteration of the loop of generate_large_file, whatever the
\* interleaving of originals and duplicates, the duplicate pool holds at most
\* its capacity of entries.
C1_PoolBounded == Len(duplicate_pool) <= PoolCapacity

\* The pool is full and an entry has been evicted from it.
C1_Witness == Len(duplicate_pool) = PoolCapacity /\ Len(originals) > PoolCapacity

\* The originals most recently emitted to the current file, oldest first, at
\* most PoolCapacity of them.
RecentOriginals ==
    LET n == Len(originals)
        k == IF n < PoolCapacity THEN n ELSE PoolCapacity
    IN  [i \in 1..k |-> originals[n - k + i].entry]

\* C2: eviction is FIFO: the pool is always the most recent
\* min(n, capacity) originals of the file, in the order of their emission, so
\* the entry evicted by an insertion is the earliest inserted one.
C2_PoolFifo == duplicate_pool = RecentOriginals

\* The oldest original has been evicted and the pool starts at the second.
C2_Witness ==
    /\ Len(originals) = PoolCapacity + 1
    /\ duplicate_pool[1].origin.n = 2
    /\ source.kind = "new"

\* C3: a record emitted through the duplicate branch carries the event_id
\* stored with the pool entry it was copied from, and that is the event_id
\* its source had when it was emitted as an original.
C3_DuplicateIdentity ==
    (pc \in {"loop", "closed"} /\ source.kind = "duplicate") =>
        /\ record.v["event_id"] = PyInt(source.entry.event_id)
        /\ source.entry.origin.n \in 1..Len(originals)
        /\ originals[source.entry.origin.n].entry = source.entry
        /\ originals[source.entry.origin.n].emitted = record.v["event_id"]

\* A duplicate has been emitted whose event_time was shifted from its source's.
C3_Witness ==
    /\ pc = "loop"
    /\ source.kind = "duplicate"
    /\ record.v["event_time"] # source.entry.record.v["event_time"]

\* C4: a record is a duplicate source only after its emission as an original
\* earlier in the same file: the pool is empty when a file starts, it holds
\* originals of the current file only, the first emission of a file is an
\* original, and a duplicate's source is an original of the current file.
C4_SourceEmittedBefore ==
    pc \in {"loop", "closed"} =>
        /\ records_written = 0 => duplicate_pool = << >>
        /\ records_written = 1 => source.kind = "new"
        /\ \A i \in 1..Len(duplicate_pool) :
              /\ duplicate_pool[i].origin.file = file_index
              /\ duplicate_pool[i].origin.n \in 1..Len(originals)
              /\ originals[duplicate_pool[i].origin.n].entry = duplicate_pool[i]
        /\ source.kind = "duplicate" =>
              /\ source.entry.origin.file = file_index
              /\ source.entry.origin.n \in 1..Len(originals)
              /\ source.entry.origin.n < records_written

\* The second file has been closed after a duplicate of one of its originals.
C4_Witness ==
    /\ pc = "closed"
    /\ file_index = 2
    /\ source.kind = "duplicate"

(***************************************************************************)
(* Streaming Writer                                                        *)
(***************************************************************************)
\* C5: after every write, and at completion, current_size is the number of
\* bytes written to the output file, for valid and for corrupted lines alike.
C5_SizeIsBytesWritten ==
    pc \in {"loop", "closed"} => current_size = disk[file_index]

\* A file has been closed that holds a corrupted line and whose last line has
\* characters of more than one byte.
C5_Witness ==
    /\ pc = "closed"
    /\ corrupted_added = 1
    /\ records_written > 1
    /\ Utf8Len(line) > Len(line)

\* C6: generation of a file always reaches CLOSED, with current_size at or
\* above the target; the loop body runs only while current_size is below the
\* target and every iteration increases current_size; once a file is closed
\* nothing more is written to it.
C6_ReachesClosed ==
    /\ (pc = "loop") ~> (pc = "closed")
    /\ [](pc = "closed" => current_size >= target_size_bytes)
    /\ [][records_written' = records_written + 1 =>
             /\ current_size < target_size_bytes
             /\ current_size' > current_size]_vars
    /\ [][\A i \in 1..NUM_LARGE_FILES :
             (i < file_index \/ (i = file_index /\ pc = "closed")) =>
                 disk'[i] = disk[i]]_vars

\* The second of two files has been closed after two lines, one corrupted.
C6_Witness ==
    /\ pc = "closed"
    /\ file_index = 2
    /\ records_written = 2
    /\ corrupted_added = 1
    /\ disk[1] > 0

\* C7: the running total crosses the target on the final line: when a file
\* with a positive target is closed, current_size without the last line is
\* below the target and current_size is at or above it; a target of 0 or
\* less gives an empty file.
C7_CrossesOnFinalLine ==
    pc = "closed" =>
        IF target_size_bytes > 0
        THEN /\ records_written > 0
             /\ current_size - Utf8Len(line) < target_size_bytes
             /\ current_size >= target_size_bytes
        ELSE /\ records_written = 0
             /\ current_size = 0
             /\ disk[file_index] = 0

\* A file has been closed whose last line met the target exactly.
C7_Witness ==
    /\ pc = "closed"
    /\ target_size_bytes > 0
    /\ current_size = target_size_bytes

(***************************************************************************)
(* The defect policies called on a record, one call after another: the     *)
(* record a call leaves is the record the next call receives.              *)
(***************************************************************************)
\* The rates of lines 28-31 and an environment that sets every rate to 1.0.
PolicyRates ==
    { DefaultRates,
      [corruption |-> 1000, missing |-> 1000, duplicate |-> 1000, outlier |-> 1000] }

\* The draws of a record whose battery_level is 50.
MidDraws == [LowDraws EXCEPT !.battery_level = 500]

\* The records the policies are called on: those of SynthInputs and one more.
PolicyInputs == SynthInputs \cup { [d |-> MidDraws, now |-> Clock1, fk |-> Faker1] }

InitPolicy ==
    /\ \E c \in PolicyRates :
          /\ CORRUPTION_RATE = c.corruption
          /\ MISSING_DATA_RATE = c.missing
          /\ DUPLICATE_RATE = c.duplicate
          /\ OUTLIER_RATE = c.outlier
    /\ FILE_SIZE_GB = 0
    /\ NUM_LARGE_FILES = 0
    /\ \E sy \in PolicyInputs :
          /\ record = generate_valid_record(sy.d, sy.now, sy.fk)[1]
          /\ event_id = generate_valid_record(sy.d, sy.now, sy.fk)[2]
    /\ pc = "policy"
    /\ file_index = 1
    /\ target_size_bytes = 0
    /\ current_size = 0
    /\ records_written = 0
    /\ duplicates_added = 0
    /\ corrupted_added = 0
    /\ duplicate_pool = << >>
    /\ line = ""
    /\ disk = << >>
    /\ source = NoSource
    /\ originals = << >>
    /\ defects_drawn = 0
    /\ call = NoCall
    /\ runs = << >>

\* The call policy(record) with draws d has had the outcome out: the record
\* is mutated in place, and an exception leaves the caller.
PolicyCall(policy, d, out) ==
    /\ record' = out.record
    /\ call' = [policy |-> policy, n |-> call.n + 1, before |-> record,
                draw |-> d, raised |-> out.raised]
    /\ pc' = IF out.raised THEN "raised" ELSE "policy"
    /\ UNCHANGED << config, file_index, target_size_bytes, current_size,
                    records_written, duplicates_added, corrupted_added,
                    duplicate_pool, event_id, line, disk, source, originals,
                    defects_drawn, runs >>

CallMissingData ==
    /\ pc = "policy"
    /\ call.n < MaxCalls
    /\ \E d \in MissingDraws :
          PolicyCall("introduce_missing_data", d, introduce_missing_data(record, d))

CallInvalidValues ==
    /\ pc = "policy"
    /\ call.n < MaxCalls
    /\ \E d \in InvalidDraws :
          PolicyCall("introduce_invalid_values", d, introduce_invalid_values(record, d))

CallOutlier ==
    /\ pc = "policy"
    /\ call.n < MaxCalls
    /\ \E d \in OutlierDraws :
          PolicyCall("introduce_outlier", d, introduce_outlier(record, d))

NextPolicy ==
    \/ CallMissingData
    \/ CallInvalidValues
    \/ CallOutlier

SpecPolicy == InitPolicy /\ [][NextPolicy]_vars

(***************************************************************************)
(* Defect Injector                                                         *)
(***************************************************************************)
\* C9: no defect policy ever raises: a call of introduce_missing_data,
\* introduce_invalid_values or introduce_outlier on any record, one whose
\* location or metadata is null included, completes without error.
C9_NoPolicyRaises == call.policy # "none" => ~call.raised

\* The fields of a generated record and of its two groups (lines 62-79).
RecordFields ==
    [record   |-> {"event_id", "device_id", "device_type", "event_time",
                   "event_duration", "location", "metadata"},
     location |-> {"latitude", "longitude", "city", "country"},
     metadata |-> {"firmware_version", "battery_level", "signal_strength"}]

\* The record has every field of a generated record, none of them null.
FullyPopulated(r) ==
    /\ DOMAIN r.v = RecordFields.record
    /\ \A k \in DOMAIN r.v : r.v[k] # None
    /\ \A g \in {"location", "metadata"} :
          /\ DOMAIN r.v[g].v = RecordFields[g]
          /\ \A k \in DOMAIN r.v[g].v : r.v[g].v[k] # None

\* The catalogue of targets of the missing-data policy: a field of the
\* record, or a field of one of its groups.
MissingTargets ==
    { <<"event_duration">>, <<"device_type">>, <<"location", "city">>,
      <<"location", "latitude">>, <<"metadata", "battery_level">>,
      <<"metadata", "signal_strength">>, <<"location">>, <<"metadata">> }

\* The record r with the target null and nothing else changed.
WithNull(r, target) ==
    IF Len(target) = 1
    THEN PyDict([r.v EXCEPT ![target[1]] = None])
    ELSE PyDict([r.v EXCEPT ![target[1]] =
                     PyDict([r.v[target[1]].v EXCEPT ![target[2]] = None])])

\* C10: when the missing-data policy fires on a fully populated record,
\* exactly one target of the catalogue becomes null and every other field of
\* the record is left unchanged.
C10_MissingNullsOneTarget ==
    ( /\ call.policy = "introduce_missing_data"
      /\ call.draw.gate < MISSING_DATA_RATE
      /\ FullyPopulated(call.before) ) =>
        /\ ~call.raised
        /\ Cardinality({ t \in MissingTargets : record = WithNull(call.before, t) }) = 1

\* The policy has fired on a fully populated record and nulled its location.
C10_Witness ==
    /\ call.policy = "introduce_missing_data"
    /\ call.draw.gate < MISSING_DATA_RATE
    /\ FullyPopulated(call.before)
    /\ record = WithNull(call.before, <<"location">>)

(***************************************************************************)
(* Two runs of the generator with the same configuration.  random.seed(42) *)
(* gives both the same draws of the random module; each run reads the      *)
(* clock and its own Faker instance, which line 21 does not seed.          *)
(***************************************************************************)
\* What a call of generate_valid_record reads besides the seeded draws.
RunInputs == { [now |-> c, fk |-> f] : c \in {Clock1, Clock2}, f \in {Faker1, Faker2} }

NewRun == [duplicate_pool |-> << >>, current_size |-> 0, records_written |-> 0,
           lines |-> << >>]

InitRuns ==
    /\ FILE_SIZE_GB \in {801, 643}
    /\ NUM_LARGE_FILES = 1
    /\ CORRUPTION_RATE = DuplicatesOnly.corruption
    /\ MISSING_DATA_RATE = DuplicatesOnly.missing
    /\ DUPLICATE_RATE = DuplicatesOnly.duplicate
    /\ OUTLIER_RATE = DuplicatesOnly.outlier
    /\ InitLocals
    /\ pc = "runs"
    /\ file_index = 1
    /\ disk = << >>
    /\ source = NoSource
    /\ originals = << >>
    /\ defects_drawn = 0
    /\ call = NoCall
    /\ runs = << >>

\* Both runs call generate_large_file for the first file.
RunsStart ==
    /\ pc = "runs"
    /\ runs = << >>
    /\ target_size_bytes' = IntTrunc(FILE_SIZE_GB, 2)
    /\ runs' = << NewRun, NewRun >>
    /\ UNCHANGED << config, pc, file_index, current_size, records_written,
                    duplicates_added, corrupted_added, duplicate_pool, record,
                    event_id, line, disk, source, originals, defects_drawn, call >>

\* One iteration of the loop in a run: lines 206-247 on the run's own state.
RunIteration(run, dr) ==
    IF ~(run.current_size < target_size_bytes) THEN run
    ELSE LET sel == SelectRecord(run.duplicate_pool, dr, 1, run.records_written + 1)
             inj == InjectDefects(sel.out.record, dr)
             w   == WriteRecord(inj.record, dr)
         IN  [duplicate_pool  |-> PoolAfterIteration(sel, inj.record),
              current_size    |-> run.current_size + w.counted,
              records_written |-> run.records_written + 1,
              lines           |-> Append(run.lines, w.line)]

\* The next iteration in every run whose loop has not ended: the draws of
\* the random module are the same in both, the clock and Faker are not.
RunsIteration ==
    /\ pc = "runs"
    /\ runs # << >>
    /\ \E k \in 1..2 : /\ runs[k].current_size < target_size_bytes
                        /\ runs[k].records_written < MaxRecords
    /\ \E rand \in GateDraws :
       LET dup == rand < DUPLICATE_RATE /\ \E k \in 1..2 : runs[k].duplicate_pool # << >> IN
       \E pick \in (IF dup THEN ValueDraws ELSE {0}) :
       \E dd \in (IF dup THEN DupDraws ELSE {NoDup}) :
       \E d \in (IF dup THEN {LowDraws} ELSE {LowDraws, HighDraws}) :
       \E in \in (IF dup THEN {[k \in 1..2 |-> [now |-> Clock1, fk |-> Faker1]]}
                         ELSE [1..2 -> RunInputs]) :
          runs' = [k \in 1..2 |->
                     RunIteration(runs[k],
                        [rand |-> rand, pick |-> pick, dup |-> dd,
                         synth |-> [d |-> d, now |-> in[k].now, fk |-> in[k].fk],
                         missing_gate |-> 999, missing |-> NoMissing,
                         outlier_gate |-> 999, outlier |-> NoOutlier,
                         invalid_gate |-> 999, invalid |-> NoInvalid,
                         corrupt_gate |-> 999, corrupt_choice |-> 0])]
    /\ UNCHANGED << config, locals, pc, file_index, disk, source, originals,
                    defects_drawn, call >>

\* Both runs have left the loop and closed their file.
RunsClose ==
    /\ pc = "runs"
    /\ runs # << >>
    /\ \A k \in 1..2 : ~(runs[k].current_size < target_size_bytes)
    /\ pc' = "runs_closed"
    /\ UNCHANGED << config, locals, file_index, disk, source, originals,
                    defects_drawn, call, runs >>

NextRuns ==
    \/ RunsStart
    \/ RunsIteration
    \/ RunsClose

SpecRuns == InitRuns /\ [][NextRuns]_vars

\* C8: with the seed and the configuration fixed, two independent runs
\* produce byte-identical output files.
C8_RunsByteIdentical == pc = "runs_closed" => runs[1].lines = runs[2].lines

(***************************************************************************)
(* Pool snapshots and the defect policies in the loop                      *)
(***************************************************************************)
\* The record is fully populated and every field with a range is within the
\* range generate_valid_record draws it from (lines 67-77).
Nominal(r) ==
    /\ FullyPopulated(r)
    /\ r.v["event_duration"].t = "float"
    /\ r.v["event_duration"].e = 3
    /\ r.v["event_duration"].v \in 100..5000
    /\ r.v["location"].v["latitude"].e = 6
    /\ r.v["location"].v["latitude"].v \in -90000000..90000000
    /\ r.v["location"].v["longitude"].e = 6
    /\ r.v["location"].v["longitude"].v \in -180000000..180000000
    /\ r.v["metadata"].v["battery_level"].v \in 0..100
    /\ r.v["metadata"].v["signal_strength"].v \in -120..0

\* C18: pool snapshots are never contaminated by defects: every pool entry
\* is the record as synthesized, an iteration changes no entry that stays in
\* the pool, and a duplicate as generate_duplicate returns it has no defect.
C18_PoolUncontaminated ==
    /\ [](\A i \in 1..Len(duplicate_pool) :
            /\ duplicate_pool[i].origin.n \in 1..Len(originals)
            /\ duplicate_pool[i].record =
                   originals[duplicate_pool[i].origin.n].entry.record
            /\ Nominal(duplicate_pool[i].record))
    /\ [](source.kind = "duplicate" => Nominal(source.base))
    /\ [][pc = "loop" /\ pc' = "loop" =>
             \A i \in 1..Len(duplicate_pool) : \A j \in 1..Len(duplicate_pool') :
                 duplicate_pool[i].origin = duplicate_pool'[j].origin =>
                     duplicate_pool[i] = duplicate_pool'[j]]_vars

\* A duplicate has been made of an entry whose original was emitted without
\* its location.
C18_Witness ==
    /\ pc = "loop"
    /\ source.kind = "duplicate"
    /\ originals[source.entry.origin.n].emitted_record.v["location"] = None
    /\ source.entry.record.v["location"] # None
    /\ source.entry \in { duplicate_pool[i] : i \in 1..Len(duplicate_pool) }

\* C19: in the loop the missing-data policy never receives a record whose
\* location or metadata is null, and no iteration is aborted by a defect
\* policy.
C19_MissingDataNeverFails ==
    /\ pc # "aborted"
    /\ source.kind # "none" =>
          /\ source.base.v["location"] # None
          /\ source.base.v["metadata"] # None

\* The policy has fired on a duplicate and nulled a field of its location.
C19_Witness ==
    /\ pc = "loop"
    /\ source.kind = "duplicate"
    /\ source.gates.missing.loop /\ source.gates.missing.helper
    /\ record.v["location"] # None
    /\ record.v["location"].v["city"] = None

(***************************************************************************)
(* The invalid-value policy                                                *)
(***************************************************************************)
\* The battery_level of a record, None if it has none.
BatteryLevel(r) ==
    IF r.v["metadata"].t = "dict" /\ "battery_level" \in DOMAIN r.v["metadata"].v
    THEN r.v["metadata"].v["battery_level"] ELSE None

\* The invalid-value policy has been called, with p_outlier = 1.0, on a
\* record whose battery_level is 50.
InvalidCalledOnBattery50 ==
    /\ call.policy = "introduce_invalid_values"
    /\ OUTLIER_RATE = 1000
    /\ BatteryLevel(call.before) = PyInt(50)

\* C11 as stated: with p_outlier = 1.0 the invalid-value policy applied to a
\* record with battery_level 50 yields a battery_level in [101,200] or in
\* [-50,-1], whichever mutation it selects.
C11_BatteryOutOfRange ==
    InvalidCalledOnBattery50 =>
        /\ BatteryLevel(record).t = "int"
        /\ BatteryLevel(record).v \in (101..200) \cup (-50..-1)

\* C11 amended: the battery_level is in [101,200] when the policy selects
\* battery_over_100, in [-50,-1] when it selects battery_negative, and
\* still 50 when it selects one of the other four mutations.
C11_BatteryByMutation ==
    InvalidCalledOnBattery50 =>
        LET selected == Choice(INVALID_TYPES, call.draw.type)
        IN  /\ BatteryLevel(record).t = "int"
            /\ CASE selected = "battery_over_100" -> BatteryLevel(record).v \in 101..200
                  [] selected = "battery_negative" -> BatteryLevel(record).v \in -50..-1
                  [] OTHER -> BatteryLevel(record).v = 50

\* The policy has selected battery_over_100 on a battery_level of 50.
C11_Witness ==
    /\ InvalidCalledOnBattery50
    /\ BatteryLevel(record).v \in 101..200

\* The group a mutation of the invalid-value policy writes into and, for
\* each leaf it writes, the range of the value (floats in millionths); the
\* two duration mutations write into no group.
NestedMutation ==
    [battery_over_100 |->
         [group |-> "metadata",
          leaves |-> [battery_level |-> [t |-> "int", lo |-> 101, hi |-> 200]]],
     battery_negative |->
         [group |-> "metadata",
          leaves |-> [battery_level |-> [t |-> "int", lo |-> -50, hi |-> -1]]],
     signal_out_of_range |->
         [group |-> "metadata",
          leaves |-> [signal_strength |-> [t |-> "int", lo |-> 1, hi |-> 100]]],
     coordinates_out_of_range |->
         [group |-> "location",
          leaves |-> [latitude  |-> [t |-> "float", lo |-> 91000000, hi |-> 180000000],
                      longitude |-> [t |-> "float", lo |-> 181000000, hi |-> 360000000]]]]

\* C12: when the invalid-value policy selects a mutation of a leaf of a
\* nested group and that group is null, the group becomes a structure that
\* holds exactly the mutated leaf or leaves, without error, and the other
\* group and the top-level fields are unchanged.
C12_NullGroupInitialised ==
    LET selected == Choice(INVALID_TYPES, call.draw.type) IN
    ( /\ call.policy = "introduce_invalid_values"
      /\ call.draw.gate < OUTLIER_RATE
      /\ selected \in DOMAIN NestedMutation
      /\ call.before.v[NestedMutation[selected].group] = None ) =>
        LET group  == NestedMutation[selected].group
            leaves == NestedMutation[selected].leaves
        IN  /\ ~call.raised
            /\ record.v[group].t = "dict"
            /\ DOMAIN record.v[group].v = DOMAIN leaves
            /\ \A k \in DOMAIN leaves :
                  /\ record.v[group].v[k].t = leaves[k].t
                  /\ record.v[group].v[k].v \in leaves[k].lo .. leaves[k].hi
            /\ DOMAIN record.v = DOMAIN call.before.v
            /\ \A k \in DOMAIN record.v \ {group} : record.v[k] = call.before.v[k]

\* The policy has written out-of-range coordinates into a null location.
C12_Witness ==
    /\ call.policy = "introduce_invalid_values"
    /\ call.draw.gate < OUTLIER_RATE
    /\ Choice(INVALID_TYPES, call.draw.type) = "coordinates_out_of_range"
    /\ call.before.v["location"] = None
    /\ record.v["location"] # None

(***************************************************************************)
(* The corruption branch                                                   *)
(***************************************************************************)
\* The last iteration of the loop wrote its line through the corruption
\* branch (lines 235-237).
CorruptionBranchTaken ==
    /\ records_written >= 1
    /\ source.kind # "none"
    /\ source.gates.corrupt

\* C13: a line written through the corruption branch differs from the valid
\* serialization of the record, whichever of the six transforms was chosen.
C13_CorruptedLineDiffers ==
    CorruptionBranchTaken =>
        /\ line # JsonDumps(record, TRUE) \o "\n"
        /\ line # JsonDumps(record, FALSE) \o "\n"

(***************************************************************************)
(* The counts reported on completion                                       *)
(***************************************************************************)
\* The positions of the newline characters of a text.
Newlines(text) == { i \in 1..Len(text) : Char(text, i) = "\n" }

\* A step that is one iteration of the writing loop.
IterationStep == pc = "loop" /\ pc' = "loop"

\* C16: the counts are exact.  At every point records_written is the
\* originals emitted plus duplicates_added, and duplicates_added is at most
\* records_written - 1 once a record is written.  Every iteration of the loop
\* writes exactly one newline-terminated line and adds one to
\* records_written, one to duplicates_added exactly when the record came from
\* the pool, and one to corrupted_added exactly when the line went through
\* the corruption branch; closing the file changes none of the counts.
C16_CountsExact ==
    /\ [](pc \in {"loop", "closed"} =>
            /\ records_written = Len(originals) + duplicates_added
            /\ (records_written >= 1 => duplicates_added <= records_written - 1)
            /\ corrupted_added <= records_written)
    /\ [][IterationStep =>
            /\ records_written' = records_written + 1
            /\ Newlines(line') = {Len(line')}
            /\ disk'[file_index] = disk[file_index] + Utf8Len(line')
            /\ duplicates_added' =
                   duplicates_added + (IF source'.kind = "duplicate" THEN 1 ELSE 0)
            /\ corrupted_added' =
                   corrupted_added + (IF source'.gates.corrupt THEN 1 ELSE 0)]_vars
    /\ [][pc' = "closed" =>
            /\ records_written' = records_written
            /\ duplicates_added' = duplicates_added
            /\ corrupted_added' = corrupted_added]_vars

\* A file is closed with a duplicate and a corrupted line among its records.
C16_Witness ==
    /\ pc = "closed"
    /\ records_written >= 2
    /\ duplicates_added >= 1
    /\ corrupted_added >= 1

\* C17: with the four rates at 0 every line written is the valid JSON
\* serialization of a freshly synthesized record whose fields are all
\* present and within their nominal ranges, and duplicates_added and
\* corrupted_added stay 0.
C17_ZeroRatesNoDefect ==
    ( /\ CORRUPTION_RATE = 0 /\ MISSING_DATA_RATE = 0
      /\ DUPLICATE_RATE = 0 /\ OUTLIER_RATE = 0
      /\ pc \in {"loop", "closed"} ) =>
        /\ duplicates_added = 0
        /\ corrupted_added = 0
        /\ records_written >= 1 =>
              /\ source.kind = "new"
              /\ record = source.entry.record
              /\ Nominal(record)
              /\ line = JsonDumps(record, FALSE) \o "\n"
              /\ \A i \in 1..Len(originals) :
                    originals[i].emitted_record = originals[i].entry.record

\* A file of several valid lines is closed with every rate at 0.
C17_Witness ==
    /\ CORRUPTION_RATE = 0 /\ MISSING_DATA_RATE = 0
    /\ DUPLICATE_RATE = 0 /\ OUTLIER_RATE = 0
    /\ pc = "closed"
    /\ records_written >= 2

(***************************************************************************)
(* The defect policies within one iteration of the loop                    *)
(***************************************************************************)
\* A file of one record, written with the default rates.
DefectConfigs == { [size |-> 2, files |-> 1, rates |-> DefaultRates] }

InitDefects ==
    /\ \E c \in DefectConfigs :
          /\ FILE_SIZE_GB = c.size
          /\ NUM_LARGE_FILES = c.files
          /\ CORRUPTION_RATE = c.rates.corruption
          /\ MISSING_DATA_RATE = c.rates.missing
          /\ DUPLICATE_RATE = c.rates.duplicate
          /\ OUTLIER_RATE = c.rates.outlier
    /\ InitLocals
    /\ pc = "main"
    /\ file_index = 1
    /\ disk = [i \in 1..NUM_LARGE_FILES |-> -1]
    /\ source = NoSource
    /\ originals = << >>
    /\ defects_drawn = 0
    /\ call = NoCall
    /\ runs = << >>

\* One iteration of the loop with every combination of the draws of lines
\* 225-235: each of the seven gates below or above its rate.  Of the six
\* corruptions of the line only the first is drawn: the policies act on the
\* record before the line is made.
LoopIterationAnyDefects ==
    /\ pc = "loop"
    /\ LoopCondition
    /\ records_written < MaxRecords
    /\ \E rand \in GateDraws :
       LET dup == rand < DUPLICATE_RATE /\ duplicate_pool # << >> IN
       \E pick \in (IF dup THEN ChoiceDraws(Len(duplicate_pool)) ELSE {0}) :
       \E dd \in (IF dup THEN DupDraws ELSE {NoDup}) :
       \E sy \in (IF dup THEN {NoSynth} ELSE SynthInputs) :
       \E g1 \in GateDraws :
       \E d1 \in (IF g1 < MISSING_DATA_RATE THEN MissingDraws ELSE {NoMissing}) :
       \E g2 \in GateDraws :
       \E d2 \in (IF g2 < OUTLIER_RATE THEN OutlierDraws ELSE {NoOutlier}) :
       \E g3 \in GateDraws :
       \E d3 \in (IF g3 < OUTLIER_RATE THEN InvalidDraws ELSE {NoInvalid}) :
       \E g4 \in GateDraws :
       \E c4 \in {0} :
          LoopBody([rand |-> rand, pick |-> pick, dup |-> dd, synth |-> sy,
                    missing_gate |-> g1, missing |-> d1,
                    outlier_gate |-> g2, outlier |-> d2,
                    invalid_gate |-> g3, invalid |-> d3,
                    corrupt_gate |-> g4, corrupt_choice |-> c4])
    /\ UNCHANGED << config, file_index, target_size_bytes, defects_drawn, call, runs >>

NextDefects ==
    \/ StartFile
    \/ LoopIterationAnyDefects
    \/ CloseFile
    \/ NextFile
    \/ GenerateReferenceFiles

SpecDefects == InitDefects /\ [][NextDefects]_vars

\* The record of the last iteration has been through the policies.
Injected == pc \in {"loop", "closed"} /\ source.kind # "none"

\* Both draws of a policy were below its rate in the last iteration.
PolicyFired(policy) == source.gates[policy].loop /\ source.gates[policy].helper

\* A leaf of a group of a record, None when the group is null.
Leaf(r, group, key) == IF r.v[group] = None THEN None ELSE r.v[group].v[key]

\* No field of the record, and no field of its groups, is null.
NoNull(r) ==
    /\ \A k \in DOMAIN r.v : r.v[k] # None
    /\ \A g \in {"location", "metadata"} : \A k \in DOMAIN r.v[g].v : r.v[g].v[k] # None

\* C14: each of the three policies changes the record only if both its
\* loop-level draw and its helper's draw succeeded.  Without both draws of
\* the missing-data policy no field is null; without both of the outlier
\* policy the duration is the one before the policies, or null, or the
\* invalid-value policy's; without both of the invalid-value policy the
\* battery, signal and coordinates are those before the policies, or null,
\* and the duration is not negative; with no policy fired the record is
\* unchanged, and with only missing data fired it has one null target.
C14_DoubleGated ==
    Injected =>
        LET base == source.base
            dur  == record.v["event_duration"]
        IN  /\ ~PolicyFired("missing") => NoNull(record)
            /\ ~PolicyFired("outlier") =>
                  \/ dur \in {base.v["event_duration"], None}
                  \/ PolicyFired("invalid") /\ (dur.v < 0 \/ dur.v >= 100000)
            /\ ~PolicyFired("invalid") =>
                  /\ \A k \in {"latitude", "longitude"} :
                        Leaf(record, "location", k) \in {Leaf(base, "location", k), None}
                  /\ \A k \in {"battery_level", "signal_strength"} :
                        Leaf(record, "metadata", k) \in {Leaf(base, "metadata", k), None}
                  /\ dur # None => dur.v >= 0
                  /\ \/ dur \in {base.v["event_duration"], None}
                     \/ PolicyFired("outlier") /\ dur.v \in 50000..500000
            /\ (~PolicyFired("outlier") /\ ~PolicyFired("invalid")) =>
                  IF PolicyFired("missing")
                  THEN \E t \in MissingTargets : record = WithNull(base, t)
                  ELSE record = base

\* All three policies have fired on the same record.
C14_Witness ==
    /\ Injected
    /\ PolicyFired("missing")
    /\ PolicyFired("outlier")
    /\ PolicyFired("invalid")
    /\ record.v["device_type"] = None
    /\ record.v["event_duration"] # source.base.v["event_duration"]
    /\ Leaf(record, "metadata", "signal_strength").v > 0

\* C20: if the outlier policy fired on a record, the event_duration emitted
\* is not null and is outside [0.1, 5.0], whatever the missing-data and
\* invalid-value policies did in the same iteration.
C20_OutlierDurationStands ==
    (Injected /\ PolicyFired("outlier")) =>
        /\ record.v["event_duration"] # None
        /\ record.v["event_duration"].t = "float"
        /\ record.v["event_duration"].e = 3
        /\ record.v["event_duration"].v < 100 \/ record.v["event_duration"].v > 5000

\* The outlier policy has fired on a record whose duration the missing-data
\* policy had nulled.
C20_Witness ==
    /\ Injected
    /\ PolicyFired("outlier")
    /\ PolicyFired("missing")
    /\ \A t \in MissingTargets \ {<<"event_duration">>} : record # WithNull(source.base, t)
    /\ ~PolicyFired("invalid")
    /\ record # source.base
    /\ NoNull(record)

(***************************************************************************)
(* generate_duplicate, called again and again on one pool entry            *)
(***************************************************************************)
\* The event_time strings generate_duplicate provides for: the isoformat()
\* of a generated record, the same instant with the suffix Z, the last
\* minute of a month, and a string that fromisoformat() rejects.
EventTimeForms(generated) ==
    { generated,
      ReplaceAll(generated, "+00:00", "Z"),
      "2026-02-28T23:59:30+00:00",
      "not-a-timestamp" }

\* The pool entries duplicated: a generated record with its event_id, its
\* event_time in one of the forms.
DuplicateSources ==
    { [record   |-> DictSet(generate_valid_record(sy.d, sy.now, sy.fk)[1],
                            "event_time", PyStr(form)),
       event_id |-> generate_valid_record(sy.d, sy.now, sy.fk)[2],
       origin   |-> [file |-> 1, n |-> 1]] :
        sy \in PolicyInputs,
        form \in UNION { EventTimeForms(
                             generate_valid_record(x.d, x.now, x.fk)[1].v["event_time"].v) :
                         x \in PolicyInputs } }

\* The draws of one call: no shift, or a shift by one of four offsets.
DuplicateCallDraws ==
    { NoDup } \cup { [gate |-> 0, seconds |-> u] : u \in {0, 250, 500, 999} }

\* The loop holds one entry in its pool, every rate but the duplicate rate
\* being 0.
InitDuplicate ==
    /\ FILE_SIZE_GB = 2001 /\ NUM_LARGE_FILES = 1
    /\ CORRUPTION_RATE = 0 /\ MISSING_DATA_RATE = 0
    /\ DUPLICATE_RATE = 1000 /\ OUTLIER_RATE = 0
    /\ \E entry \in DuplicateSources :
          /\ duplicate_pool = << entry >>
          /\ record = entry.record
          /\ event_id = entry.event_id
          /\ source = [kind |-> "new", entry |-> entry]
    /\ pc = "duplicate"
    /\ file_index = 1
    /\ target_size_bytes = IntTrunc(FILE_SIZE_GB, 2)
    /\ current_size = 0
    /\ records_written = 0
    /\ duplicates_added = 0
    /\ corrupted_added = 0
    /\ line = ""
    /\ disk = [i \in 1..NUM_LARGE_FILES |-> 0]
    /\ originals = << >>
    /\ defects_drawn = 0
    /\ call = NoCall
    /\ runs = << >>

\* Lines 210-213: the entry is taken from the pool and generate_duplicate is
\* called on it; the pool keeps the entry.
CallGenerateDuplicate ==
    /\ pc = "duplicate"
    /\ call.n < MaxCalls
    /\ \E d \in DuplicateCallDraws :
       \E entry \in {Choice(duplicate_pool, 0)} :
       \E out \in {generate_duplicate(entry.record, entry.event_id, d)} :
          /\ record' = out.record
          /\ event_id' = entry.event_id
          /\ duplicate_pool' =
                 << [entry EXCEPT !.record = SourceAfterCopy(@, out.record)] >>
          /\ call' = [policy |-> "generate_duplicate", n |-> call.n + 1,
                      before |-> entry.record, draw |-> d, raised |-> out.raised]
          /\ duplicates_added' = duplicates_added + 1
          /\ pc' = IF out.raised THEN "raised" ELSE "duplicate"
    /\ UNCHANGED << config, file_index, target_size_bytes, current_size,
                    records_written, corrupted_added, line, disk, source,
                    originals, defects_drawn, runs >>

NextDuplicate == CallGenerateDuplicate

SpecDuplicate == InitDuplicate /\ [][NextDuplicate]_vars

\* The instant an event_time string denotes, as generate_duplicate reads it.
TimeOf(text) ==
    FromIsoFormat(IF EndsWith(text, "Z") THEN ReplaceAll(text, "Z", "+00:00") ELSE text)

\* C15: a duplicate as generate_duplicate returns it equals the pool
\* snapshot it was made from in every field but event_time; its event_time
\* is the snapshot's, or 1 to 60 seconds later; it is the snapshot's when
\* that does not parse, and no error is raised.  The snapshot is not
\* modified, so the same holds however often the entry is duplicated.
C15_DuplicateDrift ==
    call.policy = "generate_duplicate" =>
        LET original == source.entry.record
            t0 == TimeOf(original.v["event_time"].v)
            t1 == TimeOf(record.v["event_time"].v)
        IN  /\ ~call.raised
            /\ duplicate_pool = << source.entry >>
            /\ DOMAIN record.v = DOMAIN original.v
            /\ \A k \in DOMAIN record.v \ {"event_time"} : record.v[k] = original.v[k]
            /\ record.v["event_time"].t = "str"
            /\ \/ record.v["event_time"] = original.v["event_time"]
               \/ /\ t0.ok /\ t1.ok
                  /\ t1.t.us = t0.t.us
                  /\ t1.t.s - t0.t.s \in 1..60

\* The same entry has been duplicated a second time, with a shift of its
\* event_time.
C15_Witness ==
    /\ call.policy = "generate_duplicate"
    /\ call.n >= 2
    /\ call.draw.gate < 500
    /\ record.v["event_time"] # source.entry.record.v["event_time"]
    /\ TimeOf(record.v["event_time"].v).ok

=============================================================================
